---------------------------- MODULE Spec2Model ----------------------------
(***************************************************************************)
(* A model of improve-batch-process.py: the function                       *)
(* improved_batch_workflow(chapter_file, batch_size=15) and the __main__   *)
(* block that wraps it as a command line tool.                             *)
(*                                                                         *)
(* Every process (the __main__ run, or a thread that calls the function)   *)
(* has its own frame of locals and its own position pc; the file system    *)
(* is shared.  One action models one statement (or one run of adjacent     *)
(* print statements) of the source.                                        *)
(*                                                                         *)
(* The statements are modelled as they read.  (The file as committed has   *)
(* an unterminated string literal on line 37, which the model treats as    *)
(* the print statements it was meant to be.)                               *)
(***************************************************************************)
EXTENDS Integers, Sequences, FiniteSets, TLC

---------------------------------------------------------------------------
(* Bounds of the model *)

\* sentence counts a document may hold: -MaxNegative .. MaxSentences
MaxNegative == 2
MaxSentences == 31
\* longest batch-size argument on the command line, in characters
MaxArgLen == 2
\* threads calling the function, and calls they make in total
NumCallers == 2
MaxCalls == 2
\* batch sizes threads pass, and sentence counts their documents hold
MaxCallBatch == 2
MaxCallSentences == 3

---------------------------------------------------------------------------
(* Program constants *)

\* def improved_batch_workflow(chapter_file, batch_size=15)
DefaultBatchSize == 15

\* the upper end of the "15-20 sentences" the module docstring names
CliDefaultBatchSizeWrong == 15 + 5
\* batch_size = int(sys.argv[2]) if len(sys.argv) > 2 else 15
CliDefaultBatchSize == 15

\* the status of a run that falls off the end of the script
NormalExitCode == 0

UsageExitCodeWrong == NormalExitCode
\* sys.exit(1)
UsageExitCode == 1

\* the status of a run ended by an uncaught exception
UncaughtExitCode == 1

\* the process that runs the __main__ block
MainProc == 0
Callers == 1..NumCallers
Procs == {MainProc} \cup Callers

OpenModeWrong == "w"
\* open(chapter_file, 'r', encoding='utf-8')
OpenMode == "r"

---------------------------------------------------------------------------
(* Documents *)

DocRefs == {"chapter.json"}

Doc(n) == [kind |-> "json", sentenceCount |-> n]
\* no such file; not JSON; JSON without meta.sentenceCount
Absent == [kind |-> "absent", sentenceCount |-> 0]
Malformed == [kind |-> "malformed", sentenceCount |-> 0]
NoCount == [kind |-> "nocount", sentenceCount |-> 0]
\* the frame's `data` before json.load has bound it
NoData == [kind |-> "none", sentenceCount |-> 0]

\* what open(chapter_file, OpenMode) leaves on disk: reading leaves the file as
\* it is, writing creates or truncates it to an empty (non-JSON) file
FileAfterOpen(content) ==
    IF OpenMode = "r" THEN content ELSE Malformed

\* the exception `with open(...)` / json.load raise, or "none"
LoadError(content) ==
    CASE content.kind = "absent" -> "FileNotFoundError"
      [] content.kind = "malformed" -> "JSONDecodeError"
      [] OTHER -> "none"

\* the exception data['meta']['sentenceCount'] raises, or "none"
LookupError(content) ==
    IF content.kind = "nocount" THEN "KeyError" ELSE "none"

---------------------------------------------------------------------------
(* int(sys.argv[2]) *)

Alphabet == {"-", "0", "1", "5", "x"}

Digits == {"0", "1", "5"}

DigitVal(ch) ==
    CASE ch = "0" -> 0
      [] ch = "1" -> 1
      [] ch = "5" -> 5

RECURSIVE DigitsVal(_)
DigitsVal(s) ==
    IF s = << >> THEN 0
    ELSE 10 * DigitsVal(SubSeq(s, 1, Len(s) - 1)) + DigitVal(s[Len(s)])

AllDigits(s) == Len(s) > 0 /\ \A i \in 1..Len(s) : s[i] \in Digits

\* Python's int(str): an optional sign, then one or more digits
ParseInt(s) ==
    IF AllDigits(s) THEN [ok |-> TRUE, value |-> DigitsVal(s)]
    ELSE IF Len(s) > 1 /\ s[1] \in {"-", "+"} /\ AllDigits(Tail(s))
         THEN [ok |-> TRUE,
               value |-> IF s[1] = "-" THEN 0 - DigitsVal(Tail(s))
                         ELSE DigitsVal(Tail(s))]
         ELSE [ok |-> FALSE, value |-> 0]

RECURSIVE Strings(_)
Strings(n) ==
    IF n = 0 THEN {<< >>}
    ELSE LET shorter == Strings(n - 1)
         IN  shorter \cup {Append(s, ch) : s \in {t \in shorter : Len(t) = n - 1},
                                           ch \in Alphabet}

ArgStrings == Strings(MaxArgLen) \ {<< >>}

---------------------------------------------------------------------------
(* total_sentences // batch_size and total_sentences % batch_size *)

PyFloorDivCeil(a, b) == (a + b - 1) \div b
\* Python's //: the floor of a / b, for a divisor of either sign (b # 0)
PyFloorDiv(a, b) ==
    IF b > 0 THEN a \div b ELSE (0 - a) \div (0 - b)

PyModFullLast(a, b) ==
    LET r == a - b * PyFloorDiv(a, b) IN IF r = 0 THEN b ELSE r
\* Python's %: the remainder that takes the divisor's sign (b # 0)
PyMod(a, b) == a - b * PyFloorDiv(a, b)

---------------------------------------------------------------------------
(* State *)

VARIABLES
    argv,             \* sys.argv; argv[1] is the script (Python's argv[0])
    fs,               \* the file system: document reference -> content
    stdout,           \* what each process's prints have written, in order
    stderr,           \* the traceback of an uncaught exception
    exitCode,         \* the exit status of the __main__ run
    pc,               \* each process's position (the line it is about to run)
    err,              \* the exception propagating in each process, or "none"
    args,             \* the arguments each process passes to the function
    chapter_file,     \* the function's parameters and locals, per process
    batch_size,
    data,
    total_sentences,
    full_batches,
    remainder,
    results           \* what each finished call of a thread gave its caller

vars == <<argv, fs, stdout, stderr, exitCode, pc, err, args, chapter_file,
          batch_size, data, total_sentences, full_batches, remainder, results>>

frame == <<chapter_file, batch_size, data, total_sentences, full_batches,
           remainder>>

Line(m, a, b) == [msg |-> m, a |-> a, b |-> b]

\* print(...) in process p.  The stream is kept as each writer's own lines in
\* order: what the terminal shows is an interleaving of them.
Write(p, line) == [stdout EXCEPT ![p] = Append(stdout[p], line)]

NoArgs == [chapter_file |-> "", batch_size |-> 0]

\* meta.sentenceCount is an integer, of either sign
SentenceCounts == (0 - MaxNegative)..MaxSentences
Contents == {Absent, Malformed, NoCount} \cup {Doc(n) : n \in SentenceCounts}

\* python improve-batch-process.py [<chapter_file> [<batch_size>]]
ArgVectors ==
    {<<"improve-batch-process.py">>}
    \cup {<<"improve-batch-process.py", f>> : f \in DocRefs}
    \cup {<<"improve-batch-process.py", f, b>> : f \in DocRefs, b \in ArgStrings}

InitFrames ==
    /\ stdout = [p \in Procs |-> << >>]
    /\ stderr = << >>
    /\ exitCode = NormalExitCode
    /\ err = [p \in Procs |-> "none"]
    /\ args = [p \in Procs |-> NoArgs]
    /\ chapter_file = [p \in Procs |-> ""]
    /\ batch_size = [p \in Procs |-> 0]
    /\ data = [p \in Procs |-> NoData]
    /\ total_sentences = [p \in Procs |-> 0]
    /\ full_batches = [p \in Procs |-> 0]
    /\ remainder = [p \in Procs |-> 0]
    /\ results = {}

\* a run of the script: the interpreter is about to run line 44
Init ==
    /\ argv \in ArgVectors
    /\ fs \in [DocRefs -> Contents]
    /\ pc = [p \in Procs |-> IF p = MainProc THEN "L44" ELSE "off"]
    /\ InitFrames

---------------------------------------------------------------------------
(* The __main__ block *)

\* if len(sys.argv) < 2: print usage; sys.exit(1)
CheckArgs ==
    /\ pc[MainProc] = "L44"
    /\ IF Len(argv) < 2
       THEN /\ stdout' = Write(MainProc, Line("usage", 0, 0))
            /\ exitCode' = UsageExitCode
            /\ pc' = [pc EXCEPT ![MainProc] = "exited"]
       ELSE /\ pc' = [pc EXCEPT ![MainProc] = "L48"]
            /\ UNCHANGED <<stdout, exitCode>>
    /\ UNCHANGED <<argv, fs, stderr, err, args, frame, results>>

\* chapter_file = sys.argv[1]
\* batch_size = int(sys.argv[2]) if len(sys.argv) > 2 else 15
ParseArgs ==
    /\ pc[MainProc] = "L48"
    /\ IF Len(argv) > 2
       THEN LET r == ParseInt(argv[3])
            IN  IF r.ok
                THEN /\ args' = [args EXCEPT ![MainProc] =
                            [chapter_file |-> argv[2], batch_size |-> r.value]]
                     /\ pc' = [pc EXCEPT ![MainProc] = "L51"]
                     /\ err' = err
                ELSE /\ args' = [args EXCEPT ![MainProc].chapter_file = argv[2]]
                     /\ pc' = [pc EXCEPT ![MainProc] = "raised"]
                     /\ err' = [err EXCEPT ![MainProc] = "ValueError"]
       ELSE /\ args' = [args EXCEPT ![MainProc] =
                   [chapter_file |-> argv[2],
                    batch_size |-> CliDefaultBatchSize]]
            /\ pc' = [pc EXCEPT ![MainProc] = "L51"]
            /\ err' = err
    /\ UNCHANGED <<argv, fs, stdout, stderr, exitCode, frame, results>>

\* a call binds the parameters in a fresh frame
Bind(p, a) ==
    /\ chapter_file' = [chapter_file EXCEPT ![p] = a.chapter_file]
    /\ batch_size' = [batch_size EXCEPT ![p] = a.batch_size]
    /\ data' = [data EXCEPT ![p] = NoData]
    /\ total_sentences' = [total_sentences EXCEPT ![p] = 0]
    /\ full_batches' = [full_batches EXCEPT ![p] = 0]
    /\ remainder' = [remainder EXCEPT ![p] = 0]

\* improved_batch_workflow(chapter_file, batch_size)
CallWorkflow ==
    /\ pc[MainProc] = "L51"
    /\ Bind(MainProc, args[MainProc])
    /\ pc' = [pc EXCEPT ![MainProc] = "L19"]
    /\ UNCHANGED <<argv, fs, stdout, stderr, exitCode, err, args, results>>

\* the function returned: the script ends
Finish ==
    /\ pc[MainProc] = "returned"
    /\ pc' = [pc EXCEPT ![MainProc] = "exited"]
    /\ exitCode' = NormalExitCode
    /\ UNCHANGED <<argv, fs, stdout, stderr, err, args, frame, results>>

UncaughtSwallowed ==
    /\ pc[MainProc] = "raised"
    /\ pc' = [pc EXCEPT ![MainProc] = "exited"]
    /\ stderr' = Append(stderr, err[MainProc])
    /\ exitCode' = NormalExitCode
    /\ UNCHANGED <<argv, fs, stdout, err, args, frame, results>>
\* nothing catches the exception: traceback on stderr, exit status 1
Uncaught ==
    /\ pc[MainProc] = "raised"
    /\ pc' = [pc EXCEPT ![MainProc] = "exited"]
    /\ stderr' = Append(stderr, err[MainProc])
    /\ exitCode' = UncaughtExitCode
    /\ UNCHANGED <<argv, fs, stdout, err, args, frame, results>>

---------------------------------------------------------------------------
(* improved_batch_workflow, statement by statement, in process p *)

Raise(p, e) ==
    /\ err' = [err EXCEPT ![p] = e]
    /\ pc' = [pc EXCEPT ![p] = "raised"]

Goto(p, l) ==
    /\ pc' = [pc EXCEPT ![p] = l]
    /\ err' = err

\* lines 19-21: the three opening prints
PrintHeader(p) ==
    /\ pc[p] = "L19"
    /\ stdout' = Write(p, Line("start", batch_size[p], 0))
    /\ Goto(p, "L24")
    /\ UNCHANGED <<argv, fs, stderr, exitCode, args, frame, results>>

\* lines 24-25: with open(chapter_file, 'r', ...) as f: data = json.load(f)
LoadChapter(p) ==
    /\ pc[p] = "L24"
    /\ LET content == fs[chapter_file[p]]
           after == FileAfterOpen(content)
       IN  /\ fs' = [fs EXCEPT ![chapter_file[p]] = after]
           /\ IF LoadError(after) # "none"
              THEN /\ Raise(p, LoadError(after))
                   /\ data' = data
              ELSE /\ data' = [data EXCEPT ![p] = after]
                   /\ Goto(p, "L27")
    /\ UNCHANGED <<argv, stdout, stderr, exitCode, args, chapter_file,
                   batch_size, total_sentences, full_batches, remainder,
                   results>>

\* lines 27-28: total_sentences = data['meta']['sentenceCount']; print it
ReadCount(p) ==
    /\ pc[p] = "L27"
    /\ IF LookupError(data[p]) # "none"
       THEN /\ Raise(p, LookupError(data[p]))
            /\ UNCHANGED <<total_sentences, stdout>>
       ELSE /\ total_sentences' =
                   [total_sentences EXCEPT ![p] = data[p].sentenceCount]
            /\ stdout' = Write(p, Line("count", data[p].sentenceCount, 0))
            /\ Goto(p, "L31")
    /\ UNCHANGED <<argv, fs, stderr, exitCode, args, chapter_file, batch_size,
                   data, full_batches, remainder, results>>

\* line 31: full_batches = total_sentences // batch_size
ComputeFullBatches(p) ==
    /\ pc[p] = "L31"
    /\ IF batch_size[p] = 0
       THEN /\ Raise(p, "ZeroDivisionError")
            /\ full_batches' = full_batches
       ELSE /\ full_batches' = [full_batches EXCEPT ![p] =
                   PyFloorDiv(total_sentences[p], batch_size[p])]
            /\ Goto(p, "L32")
    /\ UNCHANGED <<argv, fs, stdout, stderr, exitCode, args, chapter_file,
                   batch_size, data, total_sentences, remainder, results>>

ComputeRemainderRunning(p) ==
    /\ pc[p] = "L32"
    /\ remainder' = [remainder EXCEPT ![p] =
           PyMod(total_sentences[p] + Cardinality(results),
                 IF batch_size[p] = 0 THEN 1 ELSE batch_size[p])]
    /\ Goto(p, "L34")
    /\ UNCHANGED <<argv, fs, stdout, stderr, exitCode, args, chapter_file,
                   batch_size, data, total_sentences, full_batches, results>>
ComputeRemainderShared(p) ==
    /\ pc[p] = "L32"
    /\ LET others == {q \in Callers :
                         q # p /\ pc[q] \in {"L32", "L34", "L37", "returned"}}
           last == IF others = {} THEN p ELSE CHOOSE q \in others : TRUE
       IN  remainder' = [remainder EXCEPT ![p] =
               total_sentences[p] - batch_size[p] * full_batches[last]]
    /\ Goto(p, "L34")
    /\ UNCHANGED <<argv, fs, stdout, stderr, exitCode, args, chapter_file,
                   batch_size, data, total_sentences, full_batches, results>>
\* line 32: remainder = total_sentences % batch_size
ComputeRemainder(p) ==
    /\ pc[p] = "L32"
    /\ IF batch_size[p] = 0
       THEN /\ Raise(p, "ZeroDivisionError")
            /\ remainder' = remainder
       ELSE /\ remainder' = [remainder EXCEPT ![p] =
                   PyMod(total_sentences[p], batch_size[p])]
            /\ Goto(p, "L34")
    /\ UNCHANGED <<argv, fs, stdout, stderr, exitCode, args, chapter_file,
                   batch_size, data, total_sentences, full_batches, results>>

\* line 34: print the number of full batches and the size of the final batch
PrintPlan(p) ==
    /\ pc[p] = "L34"
    /\ stdout' = Write(p, Line("plan", full_batches[p], remainder[p]))
    /\ Goto(p, "L37")
    /\ UNCHANGED <<argv, fs, stderr, exitCode, args, frame, results>>

\* lines 37-41: the closing prints, then the function returns None
PrintBenefits(p) ==
    /\ pc[p] = "L37"
    /\ stdout' = Write(p, Line("benefits", 0, 0))
    /\ Goto(p, "returned")
    /\ UNCHANGED <<argv, fs, stderr, exitCode, args, frame, results>>

Step(p) ==
    \/ PrintHeader(p)
    \/ LoadChapter(p)
    \/ ReadCount(p)
    \/ ComputeFullBatches(p)
    \/ ComputeRemainder(p)
    \/ PrintPlan(p)
    \/ PrintBenefits(p)

---------------------------------------------------------------------------
(* The script, run once *)

MainStep == Step(MainProc)

Next ==
    \/ CheckArgs
    \/ ParseArgs
    \/ CallWorkflow
    \/ MainStep
    \/ Finish
    \/ Uncaught

Spec == Init /\ [][Next]_vars

\* the interpreter runs the script's next statement until the script ends
FairSpec == Spec /\ WF_vars(Next)

---------------------------------------------------------------------------
(* The function, called by threads of one process *)

CallBatchSizes == (0 - 1)..MaxCallBatch \cup {DefaultBatchSize}
CallContents ==
    {NoCount} \cup {Doc(n) : n \in (0 - 1)..MaxCallSentences}

InitCalls ==
    /\ argv = <<"improve-batch-process.py">>
    /\ fs \in [DocRefs -> CallContents]
    /\ pc = [p \in Procs |-> IF p = MainProc THEN "off" ELSE "idle"]
    /\ InitFrames

\* calls begun so far
Started == Cardinality(results) + Cardinality({q \in Callers : pc[q] # "idle"})

\* what the call in process p gave: a plan, or the exception it raised
Outcome(p) ==
    IF pc[p] = "raised"
    THEN [kind |-> err[p], full_batches |-> 0, remainder |-> 0]
    ELSE [kind |-> "plan", full_batches |-> full_batches[p],
          remainder |-> remainder[p]]

\* a thread calls improved_batch_workflow(f, b), or (f) with the default
Invoke(c) ==
    /\ pc[c] = "idle"
    /\ Started < MaxCalls
    /\ \E f \in DocRefs, b \in CallBatchSizes :
          LET a == [chapter_file |-> f, batch_size |-> b]
          IN  /\ args' = [args EXCEPT ![c] = a]
              /\ Bind(c, a)
    /\ Goto(c, "L19")
    /\ UNCHANGED <<argv, fs, stdout, stderr, exitCode, results>>

\* the call ends: the thread has its plan, or the exception
Collect(c) ==
    /\ pc[c] \in {"returned", "raised"}
    /\ results' = results \cup
           {[id |-> Cardinality(results) + 1, caller |-> c,
             doc |-> fs[args[c].chapter_file],
             batch_size |-> args[c].batch_size, outcome |-> Outcome(c)]}
    /\ pc' = [pc EXCEPT ![c] = "idle"]
    /\ err' = [err EXCEPT ![c] = "none"]
    /\ UNCHANGED <<argv, fs, stdout, stderr, exitCode, args, frame>>

NextCalls ==
    \E c \in Callers :
        \/ Invoke(c)
        \/ Step(c)
        \/ Collect(c)

SpecCalls == InitCalls /\ [][NextCalls]_vars

\* what one call gives when it runs alone: the statements of the function in
\* their order, on a document `doc` and a batch size `bs`
Alone(doc, bs) ==
    IF LoadError(doc) # "none"
    THEN [kind |-> LoadError(doc), full_batches |-> 0, remainder |-> 0]
    ELSE IF LookupError(doc) # "none"
    THEN [kind |-> LookupError(doc), full_batches |-> 0, remainder |-> 0]
    ELSE IF bs = 0
    THEN [kind |-> "ZeroDivisionError", full_batches |-> 0, remainder |-> 0]
    ELSE [kind |-> "plan",
          full_batches |-> PyFloorDiv(doc.sentenceCount, bs),
          remainder |-> PyMod(doc.sentenceCount, bs)]

---------------------------------------------------------------------------
(* Properties *)

\* the positions of a call whose line 34 has printed its plan
Reported == {"L37", "returned"}
\* the positions of a call that is past line 31
PastDivision == {"L32", "L34"} \cup Reported

HasPlanLine(p) == \E i \in DOMAIN stdout[p] : stdout[p][i].msg = "plan"

\* the plan the process printed last
PlanLine(p) ==
    stdout[p][CHOOSE i \in DOMAIN stdout[p] :
                 /\ stdout[p][i].msg = "plan"
                 /\ \A j \in DOMAIN stdout[p] :
                        j > i => stdout[p][j].msg # "plan"]

\* the document the process was asked to plan, and its sentence count
DocOf(p) ==
    IF args[p].chapter_file \in DocRefs THEN fs[args[p].chapter_file] ELSE Absent
DocCount(p) == DocOf(p).sentenceCount
DocIsJson(p) == DocOf(p).kind = "json"

MainDone == pc[MainProc] = "exited"

\* C1: for a sentence count >= 0 and a batch size >= 1, the printed plan has
\* full * batchSize + remainder = sentenceCount, 0 <= remainder < batchSize,
\* and full is the floor of sentenceCount / batchSize.
C1_PlanInvariant ==
    \A p \in Procs :
        (pc[p] \in Reported /\ DocCount(p) >= 0 /\ args[p].batch_size >= 1) =>
            LET sc == DocCount(p)
                bs == args[p].batch_size
                full == PlanLine(p).a
                rem == PlanLine(p).b
            IN  /\ full * bs + rem = sc
                /\ 0 <= rem /\ rem < bs
                /\ full * bs <= sc /\ sc < (full + 1) * bs

C1_Witness ==
    /\ pc[MainProc] \in Reported
    /\ args[MainProc].batch_size > 1
    /\ DocCount(MainProc) > args[MainProc].batch_size
    /\ PlanLine(MainProc).a > 1
    /\ PlanLine(MainProc).b > 0

\* C2: planning with a batch size <= 0 fails and yields no plan: such a call
\* never prints a plan and never returns normally.
C2_NonPositiveBatchFails ==
    \A p \in Procs :
        (pc[p] \notin {"L44", "L48", "off", "idle"} /\ args[p].batch_size <= 0) =>
            /\ ~HasPlanLine(p)
            /\ pc[p] # "returned"

\* C3: planning a negative sentence count with a batch size >= 1 fails and
\* yields no plan: such a call never prints a plan and never returns normally.
C3_NegativeCountFails ==
    \A p \in Procs :
        (/\ pc[p] \notin {"L44", "L48", "off", "idle"}
         /\ DocIsJson(p) /\ DocCount(p) < 0
         /\ args[p].batch_size >= 1) =>
            /\ ~HasPlanLine(p)
            /\ pc[p] # "returned"

\* C4: without a document reference the run ends with a non-zero status, having
\* read no document and computed no plan; every other run that has printed its
\* plan ends with status zero.
C4_ExitCodes ==
    /\ Len(argv) < 2 =>
           /\ pc[MainProc] \in {"L44", "exited"}
           /\ data[MainProc] = NoData
           /\ ~HasPlanLine(MainProc)
           /\ MainDone => exitCode # 0
    /\ (Len(argv) >= 2 /\ MainDone /\ HasPlanLine(MainProc)) => exitCode = 0

C4_Witness ==
    /\ MainDone
    /\ Len(argv) < 2
    /\ exitCode = 1
    /\ stdout[MainProc] = <<Line("usage", 0, 0)>>

\* the division of line 31 or 32 has raised in the __main__ run
PlanningRaised == err[MainProc] = "ZeroDivisionError"

\* C5: an error raised by planning is never recovered: once raised it stays
\* raised, no plan is printed in that run, and the run ends with a non-zero
\* status.
C5_ErrorNotRecovered ==
    /\ [](PlanningRaised => ~HasPlanLine(MainProc))
    /\ [][PlanningRaised => PlanningRaised']_vars
    /\ [](PlanningRaised /\ MainDone => exitCode # 0)
    /\ PlanningRaised ~> (MainDone /\ exitCode # 0)

C5_Witness ==
    /\ PlanningRaised
    /\ MainDone
    /\ exitCode = 1
    /\ stderr = <<"ZeroDivisionError">>

C7_BatchSizeUsed ==
    pc[MainProc] \in {"L19", "L24", "L27", "L31"} \cup PastDivision =>
        LET bs == IF Len(argv) > 2 THEN ParseInt(argv[3]).value ELSE 15
        IN  /\ batch_size[MainProc] = bs
            /\ pc[MainProc] \in Reported =>
                   /\ PlanLine(MainProc).a = PyFloorDiv(DocCount(MainProc), bs)
                   /\ PlanLine(MainProc).b = PyMod(DocCount(MainProc), bs)

C7_Witness ==
    /\ Len(argv) = 2
    /\ pc[MainProc] \in Reported
    /\ DocCount(MainProc) = 31
    /\ PlanLine(MainProc) = Line("plan", 2, 1)

\* C8: under every interleaving of the threads' statements each call gets the
\* plan, or the error, it would get running alone on its own arguments.
C8_NoInterference ==
    /\ \A r \in results : r.outcome = Alone(r.doc, r.batch_size)
    /\ \A c \in Callers :
           pc[c] \in {"L34"} \cup Reported =>
               Outcome(c) = Alone(DocOf(c), args[c].batch_size)

C8_Witness ==
    \E c, d \in Callers :
        /\ c # d
        /\ pc[c] = "L34" /\ pc[d] = "L32"
        /\ args[c].batch_size # args[d].batch_size
        /\ full_batches[c] # full_batches[d]
        /\ remainder[c] > 0

\* C9: a document of zero sentences is planned without error for every batch
\* size >= 1, with zero full batches and a remainder of zero.
C9_ZeroSentences ==
    \A p \in Procs :
        (/\ pc[p] \notin {"L44", "L48", "off", "idle"}
         /\ DocOf(p) = Doc(0)
         /\ args[p].batch_size >= 1) =>
            /\ err[p] = "none"
            /\ pc[p] \in Reported \cup {"exited"} =>
                   PlanLine(p) = Line("plan", 0, 0)
            /\ (p = MainProc /\ MainDone) => exitCode = 0

C9_Witness ==
    /\ MainDone
    /\ DocOf(MainProc) = Doc(0)
    /\ args[MainProc].batch_size = 15
    /\ PlanLine(MainProc) = Line("plan", 0, 0)

\* C10: no step of a run, successful or failing, changes the document: the
\* file system after the step is the file system before it.
C10_DocumentUnchanged == [][fs' = fs]_vars

C10_Witness ==
    /\ MainDone
    /\ data[MainProc] = Doc(31)
    /\ DocOf(MainProc) = Doc(31)
    /\ HasPlanLine(MainProc)

===========================================================================
